---- MODULE Spec2Model ----
(***************************************************************************)
(* Chat message store of the medical platform (api_model/model_chat.py):  *)
(* MessageStore over a document database.  The per-conversation message   *)
(* collections, the shared chats_index collection and its unique index on *)
(* user_ids are the persisted state; log_message is a sequence of store   *)
(* operations that concurrent requests interleave.                        *)
(***************************************************************************)
EXTENDS Integers, Sequences, FiniteSets, TLC

\* ------------------------------------------------------------------ bounds
MaxMsgs  == 2      \* messages persisted in one run
MaxTime  == 2      \* timestamps are 1..MaxTime
MaxLen   == 2      \* length of a user_ids argument
MaxLimit == 2      \* largest limit passed to query_latest_messages

UserIds    == {1, 2, 12}
Procs      == {"p1", "p2"}
Texts      == {"hi"}
Timestamps == 1..MaxTime
Limits     == (-1)..MaxLimit

\* Optional[datetime]: None or a timestamp
None       == <<>>
Some(t)    == <<t>>
OptTimes   == {None} \cup {Some(t) : t \in Timestamps}

\* ------------------------------------------------------------------ helpers
Range(s)   == {s[i] : i \in DOMAIN s}

SeqsUpTo(S, n) == UNION {[1..k -> S] : k \in 0..n}

UserIdLists == SeqsUpTo(UserIds, MaxLen) \ {<<>>}

Messages == [from_user : UserIds, text : Texts, timestamp : Timestamps,
             attachments : {<<>>}]

\* messages that differ in their sender alone
IndexMessages == {m \in Messages : m.timestamp = 1}

RECURSIVE sorted(_)
\* sorted(list(set(user_ids))): ascending numeric order of a set of integers
sorted(S) ==
    IF S = {} THEN <<>>
    ELSE LET m == CHOOSE x \in S : \A y \in S : x <= y
         IN  <<m>> \o sorted(S \ {m})

DigitChar(d) == <<"0", "1", "2", "3", "4", "5", "6", "7", "8", "9">>[d + 1]

RECURSIVE str(_)
\* str(user_id).encode(): the decimal digits of a non-negative integer
str(n) == IF n < 10 THEN <<DigitChar(n)>>
          ELSE str(n \div 10) \o <<DigitChar(n % 10)>>

RECURSIVE digest_update(_)
\* the bytes fed to the digest, one update per id of the sorted list
digest_update(ids) ==
    IF ids = <<>> THEN <<>>
    ELSE str(Head(ids)) \o digest_update(Tail(ids))

\* SHA-256 taken as collision-free: the digest is represented by the byte
\* string it was computed from.
hexdigest(bytes) == [sha256_of |-> bytes]

\* the digest fed in argument order, without set() and sorted()
_get_chat_id_OrderMutant(user_ids) ==
    [prefix |-> "chat_", digest |-> hexdigest(digest_update(user_ids))]

\* lines 188-192

_get_chat_id(user_ids) ==
    [prefix |-> "chat_",
     digest |-> hexdigest(digest_update(sorted(Range(user_ids))))]


\* ------------------------------------------------------------------ Message
to_dict(message) ==
    [from_user   |-> message.from_user,
     text        |-> message.text,
     timestamp   |-> message.timestamp,
     attachments |-> message.attachments]

from_record(record) ==
    [from_user   |-> record.from_user,
     text        |-> record.text,
     timestamp   |-> record.timestamp,
     attachments |-> record.attachments]

\* ------------------------------------------------------------------ MessageAttachment
SUPPORTED_ATTACHMENT_TYPES == {"video", "audio", "image", "file"}

\* the type and url arguments a caller passes
AttachmentTypes == SUPPORTED_ATTACHMENT_TYPES \cup {"text", ""}
Urls            == {"", "u"}

\* the url is not looked at
MessageAttachment_NoUrlCheckMutant(type, url) ==
    IF type \notin SUPPORTED_ATTACHMENT_TYPES
    THEN [raised |-> "ValueError", object |-> None]
    ELSE [raised |-> "none", object |-> Some([type |-> type, url |-> url])]

\* MessageAttachment(type, url): the dataclass constructor followed by
\* __post_init__, lines 37-42; an error leaves no object
MessageAttachment(type, url) ==
    IF type \notin SUPPORTED_ATTACHMENT_TYPES
    THEN [raised |-> "ValueError", object |-> None]
    ELSE IF url = ""
    THEN [raised |-> "ValueError", object |-> None]
    ELSE [raised |-> "none", object |-> Some([type |-> type, url |-> url])]

\* ------------------------------------------------------------------ document store
\* a collection that does not exist reads as some collection that does
Collection_FallbackMutant(db, name) ==
    IF name \in DOMAIN db \/ DOMAIN db = {} THEN
        IF name \in DOMAIN db THEN db[name] ELSE <<>>
    ELSE db[CHOOSE n \in DOMAIN db : TRUE]

\* self.database[name]: a collection that does not exist yet reads as empty
Collection(db, name) == IF name \in DOMAIN db THEN db[name] ELSE <<>>

\* the inserted document replaces what the collection held
insert_one_ReplaceMutant(db, name, doc) ==
    [n \in DOMAIN db \cup {name} |-> IF n = name THEN <<doc>> ELSE db[n]]

\* a document equal to one the collection holds is not inserted again
insert_one_DedupMutant(db, name, doc) ==
    [n \in DOMAIN db \cup {name} |->
        IF n = name /\ (n \notin DOMAIN db \/ \A i \in DOMAIN db[n] : db[n][i] # doc)
        THEN Append(IF n \in DOMAIN db THEN db[n] ELSE <<>>, doc)
        ELSE db[n]]

\* self.database[name].insert_one(doc): creates the collection on first insert
insert_one(db, name, doc) ==
    [n \in DOMAIN db \cup {name} |->
        IF n = name THEN Append(Collection(db, name), doc) ELSE db[n]]

\* collection.count_documents({"chat_id": chat_id})
count_documents(index, chat_id) ==
    Cardinality({i \in DOMAIN index : index[i].chat_id = chat_id})

\* A unique index on the array field user_ids is multikey: every element of
\* the array is a key, and no two documents may hold the same key.
DuplicateKey(index, doc) ==
    \E i \in DOMAIN index :
        Range(index[i].user_ids) \cap Range(doc.user_ids) # {}

\* create_index("user_ids", unique=True) on a collection whose documents
\* already share a key cannot build the index
IndexBuildFails(index) ==
    \E i, j \in DOMAIN index :
        /\ i # j
        /\ Range(index[i].user_ids) \cap Range(index[j].user_ids) # {}

\* ------------------------------------------------------------------ log_message
\* the sender is not added
with_sender_NoAppendMutant(user_ids, message) == user_ids

\* lines 99-100: the sender joins the list when absent
with_sender(user_ids, message) ==
    IF message.from_user \notin Range(user_ids)
    THEN Append(user_ids, message.from_user)
    ELSE user_ids

index_entry(user_ids) ==
    [chat_id |-> _get_chat_id(user_ids), user_ids |-> user_ids]


\* ------------------------------------------------------------------ state
VARIABLES
    database,      \* collection name (chat id) -> sequence of message documents
    chats_index,   \* the chats_index collection, in insertion order
    unique_index,  \* TRUE once the unique index on user_ids exists
    pc,            \* per request: the store operation it performs next
    user_ids,      \* per request: the user_ids list of log_message
    message,       \* per request: the message of log_message
    count,         \* per request: count of _store_conversation_index
    outcome,       \* per request: how its last log_message ended
    response,      \* the answer last given to a call that is one store
                   \* operation or none, until its client has taken it
    data_rows,     \* the device data tables' rows, in insertion order
    ingest         \* per request: the data of its store_data call

vars == <<database, chats_index, unique_index, pc, user_ids, message, count,
          outcome, response, data_rows, ingest>>

store  == <<database, chats_index, unique_index, data_rows>>
locals == <<pc, user_ids, message, count, outcome, ingest>>

NoMessage  == [from_user |-> 0, text |-> "", timestamp |-> 0,
               attachments |-> <<>>]
NoResponse == [op |-> "none"]
NoIngest   == [data |-> <<>>, next |-> 1, status |-> "none"]

RECURSIVE SumLen(_, _)
SumLen(db, names) ==
    IF names = {} THEN 0
    ELSE LET n == CHOOSE x \in names : TRUE
         IN  Len(db[n]) + SumLen(db, names \ {n})

\* messages persisted so far, over all conversations
Stored == SumLen(database, DOMAIN database)

Init ==
    /\ database = <<>>
    /\ chats_index = <<>>
    /\ unique_index = FALSE
    /\ pc = [p \in Procs |-> "idle"]
    /\ user_ids = [p \in Procs |-> <<>>]
    /\ message = [p \in Procs |-> NoMessage]
    /\ count = [p \in Procs |-> 0]
    /\ outcome = [p \in Procs |-> "none"]
    /\ response = NoResponse
    /\ data_rows = <<>>
    /\ ingest = [p \in Procs |-> NoIngest]

\* ------------------------------------------------------------------ concurrent requests
\* A call is a sequence of store operations, each one step; the steps of
\* other calls come between them.  The answer of one read recorded in
\* response is taken by its client (Return) before the next write to the
\* store, so that a state shows an answer together with the store it was
\* given from; Return changes nothing else, and every order of the store
\* operations remains.  The pages a client holds between the calls of a
\* walk (op "paginate") keep no write waiting.
NoAnswerPending == response.op \in {"none", "paginate"}

\* the call goes to the index with its message not yet inserted
LogMessageInsertFrom_IndexFirstMutant(p, lists, msgs, max) ==
    /\ pc[p] = "idle"
    /\ NoAnswerPending
    /\ Stored < max
    /\ \E ids \in lists, m \in msgs :
        /\ user_ids' = [user_ids EXCEPT ![p] = with_sender(ids, m)]
        /\ message' = [message EXCEPT ![p] = m]
    /\ pc' = [pc EXCEPT ![p] = "count_documents"]
    /\ count' = [count EXCEPT ![p] = 0]
    /\ outcome' = [outcome EXCEPT ![p] = "running"]
    /\ UNCHANGED <<data_rows, ingest, database, chats_index, unique_index,
                   response>>

\* log_message, lines 99-103: extend the list, derive the key, insert the
\* message
LogMessageInsertFrom(p, lists, msgs, max) ==
    /\ pc[p] = "idle"
    /\ NoAnswerPending
    /\ Stored < max
    /\ \E ids \in lists, m \in msgs :
        /\ user_ids' = [user_ids EXCEPT ![p] = with_sender(ids, m)]
        /\ message' = [message EXCEPT ![p] = m]
        /\ database' = insert_one(database,
                                  _get_chat_id(with_sender(ids, m)), to_dict(m))
    /\ pc' = [pc EXCEPT ![p] = "count_documents"]
    /\ count' = [count EXCEPT ![p] = 0]
    /\ outcome' = [outcome EXCEPT ![p] = "running"]
    /\ UNCHANGED <<data_rows, ingest, chats_index, unique_index, response>>

LogMessageInsert(p) ==
    LogMessageInsertFrom(p, UserIdLists, IndexMessages, MaxMsgs)

\* _store_conversation_index, lines 195-198 and 204: count the entries of the key
CountDocuments(p) ==
    /\ pc[p] = "count_documents"
    /\ LET c == count_documents(chats_index, _get_chat_id(user_ids[p]))
       IN  /\ count' = [count EXCEPT ![p] = c]
           /\ pc' = [pc EXCEPT ![p] =
                        IF c = 0 THEN "insert_one" ELSE "create_index"]
    /\ UNCHANGED <<store, user_ids, message, outcome, response, ingest>>

\* lines 199-202: insert the entry; the unique index, once built, rejects a
\* document that repeats a key and the error leaves log_message
InsertIndexEntry(p) ==
    /\ pc[p] = "insert_one"
    /\ NoAnswerPending
    /\ IF unique_index /\ DuplicateKey(chats_index, index_entry(user_ids[p]))
       THEN /\ pc' = [pc EXCEPT ![p] = "idle"]
            /\ outcome' = [outcome EXCEPT ![p] = "DuplicateKeyError"]
            /\ UNCHANGED chats_index
       ELSE /\ chats_index' = Append(chats_index, index_entry(user_ids[p]))
            /\ pc' = [pc EXCEPT ![p] = "create_index"]
            /\ UNCHANGED outcome
    /\ UNCHANGED <<data_rows, ingest, database, unique_index, user_ids,
                   message, count, response>>

\* the entries of the call's key take the list of the call
CreateIndex_RewriteMutant(p) ==
    /\ pc[p] = "create_index"
    /\ NoAnswerPending
    /\ chats_index' = [i \in DOMAIN chats_index |->
                          IF chats_index[i].chat_id = _get_chat_id(user_ids[p])
                          THEN index_entry(user_ids[p]) ELSE chats_index[i]]
    /\ outcome' = [outcome EXCEPT ![p] = "returned"]
    /\ unique_index' = TRUE
    /\ pc' = [pc EXCEPT ![p] = "idle"]
    /\ UNCHANGED <<data_rows, ingest, database, user_ids, message, count,
                   response>>

\* line 208: build the unique index (a no-op once it exists), then return
CreateIndex(p) ==
    /\ pc[p] = "create_index"
    /\ NoAnswerPending
    /\ IF ~unique_index /\ IndexBuildFails(chats_index)
       THEN /\ outcome' = [outcome EXCEPT ![p] = "IndexBuildError"]
            /\ UNCHANGED unique_index
       ELSE /\ outcome' = [outcome EXCEPT ![p] = "returned"]
            /\ unique_index' = TRUE
    /\ pc' = [pc EXCEPT ![p] = "idle"]
    /\ UNCHANGED <<data_rows, ingest, database, chats_index, user_ids,
                   message, count, response>>

Next ==
    \E p \in Procs :
        \/ LogMessageInsert(p)
        \/ CountDocuments(p)
        \/ InsertIndexEntry(p)
        \/ CreateIndex(p)

Spec == Init /\ [][Next]_vars


\* ------------------------------------------------------------------ concurrent writers, one reader
\* two members of the group {1, 2} write: user 1 names the group with or
\* without itself, user 2 names it in the other order than the list user 1
\* leaves stored; user 2 naming <<2>> writes to the conversation {2}
ChatLists    == {<<2>>, <<1, 2>>}
ChatMessages == {m \in Messages : m.from_user \in {1, 2}}

ChatLogMessageInsert(p) ==
    LogMessageInsertFrom(p, ChatLists, ChatMessages, MaxMsgs)

\* ------------------------------------------------------------------ a third call after a race
\* users 1 and 2 write to the conversations {1}, {2} and {1, 2}; one call
\* more than MaxMsgs, so that a call can follow two calls that raced
RaceLists    == {<<1>>, <<2>>}
RaceMessages == {m \in IndexMessages : m.from_user \in {1, 2}}

RaceLogMessageInsert(p) ==
    LogMessageInsertFrom(p, RaceLists, RaceMessages, MaxMsgs + 1)

RaceNext ==
    \E p \in Procs :
        \/ RaceLogMessageInsert(p)
        \/ CountDocuments(p)
        \/ InsertIndexEntry(p)
        \/ CreateIndex(p)

RaceSpec == Init /\ [][RaceNext]_vars

\* ------------------------------------------------------------------ the store becomes unreachable
\* s without the last of its elements equal to x
RemoveLast(s, x) ==
    LET i == CHOOSE n \in DOMAIN s :
                 s[n] = x /\ \A k \in DOMAIN s : s[k] = x => k <= n
    IN  SubSeq(s, 1, i - 1) \o SubSeq(s, i + 1, Len(s))

\* the call takes its message back out of the conversation before it raises
StoreUnavailable_RollbackMutant(p) ==
    /\ pc[p] \in {"count_documents", "insert_one", "create_index"}
    /\ pc' = [pc EXCEPT ![p] = "idle"]
    /\ outcome' = [outcome EXCEPT ![p] = "StorageUnavailable"]
    /\ database' = [database EXCEPT ![_get_chat_id(user_ids[p])] =
                        RemoveLast(@, to_dict(message[p]))]
    /\ UNCHANGED <<data_rows, ingest, chats_index, unique_index, user_ids,
                   message, count, response>>

\* lines 103 and 194-208: the store cannot be reached by the next operation
\* on chats_index (count_documents, insert_one or create_index); the driver's
\* error meets no handler in _store_conversation_index nor in log_message, it
\* leaves the call, and the message inserted at line 103 stays
StoreUnavailable(p) ==
    /\ pc[p] \in {"count_documents", "insert_one", "create_index"}
    /\ pc' = [pc EXCEPT ![p] = "idle"]
    /\ outcome' = [outcome EXCEPT ![p] = "StorageUnavailable"]
    /\ UNCHANGED <<store, user_ids, message, count, response, ingest>>

FailNext ==
    \E p \in Procs :
        \/ ChatLogMessageInsert(p)
        \/ CountDocuments(p)
        \/ InsertIndexEntry(p)
        \/ CreateIndex(p)
        \/ StoreUnavailable(p)

FailSpec == Init /\ [][FailNext]_vars

\* ------------------------------------------------------------------ queries
Min(a, b) == IF a < b THEN a ELSE b
Abs(n)    == IF n < 0 THEN -n ELSE n

Reverse(s) == [i \in 1..Len(s) |-> s[Len(s) + 1 - i]]

\* lines 126-132: the filter document built from the two optional bounds
time_query(since, until) ==
    IF since # None /\ until # None
    THEN [gt |-> since, lt |-> until]
    ELSE IF since # None THEN [gt |-> since, lt |-> None]
    ELSE IF until # None THEN [gt |-> None, lt |-> until]
    ELSE [gt |-> None, lt |-> None]

\* lines 160-162
until_query(until) ==
    IF until # None THEN [gt |-> None, lt |-> until]
    ELSE [gt |-> None, lt |-> None]

\* bounds that include the bound itself
matches_InclusiveMutant(doc, query) ==
    /\ query.gt # None => doc.timestamp >= query.gt[1]
    /\ query.lt # None => doc.timestamp <= query.lt[1]

\* a document matches {"timestamp": {"$gt": a, "$lt": b}}
matches(doc, query) ==
    /\ query.gt # None => doc.timestamp > query.gt[1]
    /\ query.lt # None => doc.timestamp < query.lt[1]

\* find(query): the matching documents, in storage order
find(docs, query) == SelectSeq(docs, LAMBDA d : matches(d, query))

Orders(n) == {f \in [1..n -> 1..n] : \A i, j \in 1..n : i # j => f[i] # f[j]}

\* the documents stay in storage order
sort_StorageOrderMutant(docs, direction) == {docs}

\* sort("timestamp", direction): every order of the documents that follows
\* the sort key; documents with equal timestamps come in any order
sort(docs, direction) ==
    {[i \in 1..Len(docs) |-> docs[f[i]]] : f \in
        {g \in Orders(Len(docs)) :
            \A i, j \in 1..Len(docs) :
                i < j => direction * docs[g[i]].timestamp
                            <= direction * docs[g[j]].timestamp}}

ASCENDING  == 1
DESCENDING == -1

\* the limit keeps the end of the cursor instead of its start
limit_cursor_TailMutant(docs, n) ==
    IF n = 0 THEN docs
    ELSE SubSeq(docs, Len(docs) - Min(Abs(n), Len(docs)) + 1, Len(docs))

\* cursor.limit(n): 0 is no limit, a negative n is a limit of -n
limit_cursor(docs, n) ==
    IF n = 0 THEN docs ELSE SubSeq(docs, 1, Min(Abs(n), Len(docs)))

records_to_messages(docs) == [i \in 1..Len(docs) |-> from_record(docs[i])]

\* the lists query_time_range can return
query_time_range(db, ids, since, until) ==
    {records_to_messages(r) :
        r \in sort(find(Collection(db, _get_chat_id(ids)),
                        time_query(since, until)), ASCENDING)}

\* the page left in descending order
query_latest_messages_NoReverseMutant(db, ids, until, limit) ==
    {records_to_messages(limit_cursor(r, limit)) :
        r \in sort(find(Collection(db, _get_chat_id(ids)),
                        until_query(until)), DESCENDING)}

\* the lists query_latest_messages can return
query_latest_messages(db, ids, until, limit) ==
    {Reverse(records_to_messages(limit_cursor(r, limit))) :
        r \in sort(find(Collection(db, _get_chat_id(ids)),
                        until_query(until)), DESCENDING)}

\* one element of q in the array is enough
all_match_AnyMutant(entry, q) ==
    \E u \in Range(q) : u \in Range(entry.user_ids)

\* {"user_ids": {"$all": q}}: every element of q is in the array; an empty
\* q matches no document
all_match(entry, q) ==
    /\ q # <<>>
    /\ Range(q) \subseteq Range(entry.user_ids)

get_user_chats(index, q) ==
    LET chats == SelectSeq(index, LAMBDA e : all_match(e, q))
    IN  [i \in 1..Len(chats) |-> chats[i].user_ids]

\* ------------------------------------------------------------------ reads
QueryLists == SeqsUpTo(UserIds, MaxLen)
QueryTimes == {None} \cup {Some(t) : t \in 0..(MaxTime + 1)}

\* one conversation named in both orders, and a list whose key is the same
ReadLists  == {<<1, 2>>, <<2, 1>>, <<12>>}

\* the query leaves the collection it names created
QueryTimeRangeFrom_CreatesCollectionMutant(lists, times) ==
    /\ response = NoResponse
    /\ \E ids \in lists, since \in times, until \in times :
        /\ \E r \in query_time_range(database, ids, since, until) :
             response' = [op |-> "query_time_range", user_ids |-> ids,
                          since |-> since, until |-> until, result |-> r,
                          raised |-> "none"]
        /\ database' = [n \in DOMAIN database \cup {_get_chat_id(ids)} |->
                            Collection(database, n)]
    /\ UNCHANGED <<data_rows, chats_index, unique_index, locals>>

\* a read is one store operation (find), served whatever the other requests
\* are at
QueryTimeRangeFrom(lists, times) ==
    /\ response = NoResponse
    /\ \E ids \in lists, since \in times, until \in times :
        \E r \in query_time_range(database, ids, since, until) :
            response' = [op |-> "query_time_range", user_ids |-> ids,
                         since |-> since, until |-> until, result |-> r,
                         raised |-> "none"]
    /\ UNCHANGED <<store, locals>>

QueryTimeRange == QueryTimeRangeFrom(ReadLists, QueryTimes)

QueryLatestMessagesFrom(lists, times, limits) ==
    /\ response = NoResponse
    /\ \E ids \in lists, until \in times, limit \in limits :
        \E r \in query_latest_messages(database, ids, until, limit) :
            response' = [op |-> "query_latest_messages", user_ids |-> ids,
                         until |-> until, limit |-> limit, result |-> r,
                         raised |-> "none"]
    /\ UNCHANGED <<store, locals>>

QueryLatestMessages == QueryLatestMessagesFrom(ReadLists, QueryTimes, Limits)

GetUserChatsFrom(lists) ==
    /\ response = NoResponse
    /\ \E q \in lists :
        response' = [op |-> "get_user_chats", user_ids |-> q,
                     result |-> get_user_chats(chats_index, q),
                     raised |-> "none"]
    /\ UNCHANGED <<store, locals>>

GetUserChats == GetUserChatsFrom(QueryLists)

\* the client takes the answer
Return ==
    /\ response # NoResponse
    /\ response' = NoResponse
    /\ UNCHANGED <<store, locals>>

\* ------------------------------------------------------------------ calls issued one at a time
\* one request logs, its calls one after the other, each call the store
\* operations of log_message
SeqNext ==
    \/ LogMessageInsert("p1")
    \/ CountDocuments("p1")
    \/ InsertIndexEntry("p1")
    \/ CreateIndex("p1")

SeqSpec == Init /\ [][SeqNext]_vars

\* the queries of get_user_chats: every set of users as a sorted list, a
\* list out of order and a list that repeats a user
UserChatsQueries ==
    {sorted(S) : S \in SUBSET UserIds} \cup {<<2, 1>>, <<1, 1>>}

\* get_user_chats is served between the store operations of the calls
UserChatsNext ==
    \/ LogMessageInsert("p1")
    \/ CountDocuments("p1")
    \/ InsertIndexEntry("p1")
    \/ CreateIndex("p1")
    \/ GetUserChatsFrom(UserChatsQueries)
    \/ Return

UserChatsSpec == Init /\ [][UserChatsNext]_vars

\* the lists the logging request names: a conversation and a list whose
\* key is the same
ReadWriteLists == {<<1, 2>>, <<12>>}

LogMessageInsertRead(p) ==
    LogMessageInsertFrom(p, ReadWriteLists, Messages, MaxMsgs)

\* the messages of a conversation are written by one store operation of
\* each call (line 103), so the contents of the conversations that calls
\* reach in any interleaving are those that the calls of one request reach
ReadNext ==
    \/ LogMessageInsertRead("p1")
    \/ CountDocuments("p1")
    \/ InsertIndexEntry("p1")
    \/ CreateIndex("p1")
    \/ QueryTimeRange
    \/ QueryLatestMessages
    \/ Return

ReadSpec == Init /\ [][ReadNext]_vars

\* ------------------------------------------------------------------ a client that pages backwards
\* the first page: query_latest_messages with until absent; held is the
\* number of messages the conversation holds when the walk starts
StartPagination ==
    /\ response = NoResponse
    /\ \E ids \in ReadLists, limit \in 1..MaxLimit :
        \E page \in query_latest_messages(database, ids, None, limit) :
            response' = [op |-> "paginate", user_ids |-> ids,
                         limit |-> limit, until |-> None, page |-> page,
                         visited |-> page, done |-> page = <<>>,
                         held |-> Len(Collection(database,
                                                 _get_chat_id(ids)))]
    /\ UNCHANGED <<store, locals>>

\* the next page: until is the timestamp of the oldest message of the page
\* before, which is its first; an empty page ends the walk
NextPage ==
    /\ response.op = "paginate"
    /\ ~response.done
    /\ LET until == Some(response.page[1].timestamp)
       IN  \E page \in query_latest_messages(database, response.user_ids,
                                              until, response.limit) :
               response' = [response EXCEPT !.until = until,
                                            !.page = page,
                                            !.visited = page \o @,
                                            !.done = page = <<>>]
    /\ UNCHANGED <<store, locals>>

\* the calls of a walk are separate calls of query_latest_messages: the
\* store operations of a log_message call come between any two of them
PageNext ==
    \/ LogMessageInsertRead("p1")
    \/ CountDocuments("p1")
    \/ InsertIndexEntry("p1")
    \/ CreateIndex("p1")
    \/ StartPagination
    \/ NextPage
    \/ Return

PageSpec == Init /\ [][PageNext]_vars

\* every operation of MessageStore: a request that logs and the reads
StoreNext ==
    \/ LogMessageInsertRead("p1")
    \/ CountDocuments("p1")
    \/ InsertIndexEntry("p1")
    \/ CreateIndex("p1")
    \/ QueryTimeRange
    \/ QueryLatestMessages
    \/ GetUserChats
    \/ Return

StoreSpec == Init /\ [][StoreNext]_vars


\* ------------------------------------------------------------------ the message POST endpoint
\* chat_api.py, CreateMessageRequest: the JSON body of a request.  from_user
\* 0 stands for the values that are false in a condition (0 and None); the
\* third attachment lacks its url and the fourth has an empty one
PostSenders     == {0, 1}
PostTexts       == {"", "hi"}
PostRecipients  == {<<>>, <<1>>, <<1, 1>>, <<2>>}
PostAttachments == {<<>>,
                    <<[type |-> "image", url |-> "u"]>>,
                    <<[type |-> "image"]>>,
                    <<[type |-> "image", url |-> ""]>>}

CreateMessageRequests ==
    [from_user : PostSenders, text : PostTexts,
     attachments : PostAttachments, recipient_ids : PostRecipients]

\* line 59, MessageAttachment(**data): a dict without exactly the fields type
\* and url is a TypeError of the constructor call
attachment_from_data(data) ==
    IF DOMAIN data # {"type", "url"}
    THEN [raised |-> "TypeError", object |-> None]
    ELSE MessageAttachment(data.type, data.url)

\* lines 58-63: the list comprehension stops at the first error
attachments_error(datas) ==
    IF \E i \in DOMAIN datas : attachment_from_data(datas[i]).raised # "none"
    THEN LET i == CHOOSE n \in DOMAIN datas :
                    /\ attachment_from_data(datas[n]).raised # "none"
                    /\ \A k \in 1..(n - 1) :
                         attachment_from_data(datas[k]).raised = "none"
         IN  IF attachment_from_data(datas[i]).raised = "TypeError"
             THEN <<"Attachment is malformed.">>
             ELSE <<"ValueError">>
    ELSE <<>>

\* the check of line 53 is left out
post_errors_NoContentCheckMutant(req) ==
    (IF req.recipient_ids = <<>>
     THEN <<"Must specificy at least one or more recipient.">> ELSE <<>>)
    \o (IF req.recipient_ids = <<req.from_user>>
        THEN <<"You can't send messages to yourself.">> ELSE <<>>)
    \o (IF req.from_user = 0
        THEN <<"Missing required field: from_user">> ELSE <<>>)
    \o attachments_error(req.attachments)

\* lines 43-63: the errors the endpoint collects for a request
post_errors(req) ==
    (IF req.recipient_ids = <<>>
     THEN <<"Must specificy at least one or more recipient.">> ELSE <<>>)
    \o (IF req.recipient_ids = <<req.from_user>>
        THEN <<"You can't send messages to yourself.">> ELSE <<>>)
    \o (IF req.from_user = 0
        THEN <<"Missing required field: from_user">> ELSE <<>>)
    \o (IF req.text = "" /\ req.attachments = <<>>
        THEN <<"Either text or an attachment is required.">> ELSE <<>>)
    \o attachments_error(req.attachments)

\* lines 68-72: the message of an accepted request; the clock reads 1
post_message(req) ==
    [from_user   |-> req.from_user,
     text        |-> req.text,
     timestamp   |-> 1,
     attachments |-> [i \in DOMAIN req.attachments |->
                         attachment_from_data(req.attachments[i]).object[1]]]

\* MessageEndpoints.post, lines 40-74: a request with errors is answered
\* with them and the store is not called; otherwise log_message is called
\* (line 73), whose first store operation inserts the message, and the
\* request goes on with the operations on the index
MessagePost(p) ==
    /\ pc[p] = "idle"
    /\ response = NoResponse
    /\ \E req \in CreateMessageRequests :
        LET errors == post_errors(req)
            m      == post_message(req)
            ids    == with_sender(req.recipient_ids, m)
        IN  IF errors # <<>>
            THEN /\ response' = [op |-> "post", request |-> req,
                                 status |-> "error", errors |-> errors]
                 /\ UNCHANGED <<store, locals>>
            ELSE /\ Stored < MaxMsgs
                 /\ database' = insert_one(database, _get_chat_id(ids),
                                           to_dict(m))
                 /\ user_ids' = [user_ids EXCEPT ![p] = ids]
                 /\ message' = [message EXCEPT ![p] = m]
                 /\ pc' = [pc EXCEPT ![p] = "count_documents"]
                 /\ count' = [count EXCEPT ![p] = 0]
                 /\ outcome' = [outcome EXCEPT ![p] = "running"]
                 /\ UNCHANGED <<chats_index, unique_index, data_rows, ingest,
                                response>>

PostNext ==
    \/ \E p \in Procs :
          \/ MessagePost(p)
          \/ CountDocuments(p)
          \/ InsertIndexEntry(p)
          \/ CreateIndex(p)
    \/ Return

PostSpec == Init /\ [][PostNext]_vars

\* ------------------------------------------------------------------ data ingestion endpoint
\* MODEL_TYPE_NAMES, lines 21-28, each datum class given by the fields it
\* declares beyond those of DeviceDatum
MODEL_TYPE_NAMES ==
    [temperature       |-> {"deg_c"},
     blood_pressure    |-> {"systolic", "diastolic"},
     oxygen_saturation |-> {"percentage"},
     glucose_level     |-> {"mg_dl"},
     heart_rate        |-> {"bpm"},
     weight            |-> {"grams"}]

\* two known types and one that is unknown
DataTypes == {"temperature", "heart_rate", "steps"}

\* an ISO 8601 time and a string that is none
CollectionTimes == {"2024-01-01T00:00:00", "noon"}

\* a reading, a reading that is a JSON null, a reading that names the
\* datum_id of a row, a reading of another type
DataValues == {[deg_c |-> Some(37)], [deg_c |-> None],
               [deg_c |-> Some(38), datum_id |-> Some(1)],
               [bpm |-> Some(60)]}

\* JSONDatum, lines 30-36: the data points a device can post
JSONData == [device_id : {1}, collection_time : CollectionTimes,
             data_type : DataTypes, data : DataValues]

\* the bodies of a POST: a list of data points, no "data" key, a "data"
\* that is no list, and a body that is not sent as JSON
DataRequests ==
    [content_type : {"application/json"}, shape : {"list"},
     data : SeqsUpTo(JSONData, MaxLen)]
    \cup [content_type : {"application/json"},
          shape : {"missing", "not a list"}, data : {<<>>}]
    \cup [content_type : {"text/plain"}, shape : {"list"}, data : {<<>>}]

\* datetime.fromisoformat raises ValueError on a string that is no ISO time
fromisoformat(s) ==
    [raised |-> IF s = "2024-01-01T00:00:00" THEN "none" ELSE "ValueError",
     value  |-> s]

\* lines 61-86, one data point: an unknown data_type is reported; the time
\* is parsed before the datum class is called, and the class, keyword-only
\* and without validators, raises TypeError when a field of its own is
\* missing or a keyword is not one of its fields; datum_id is a field of
\* every datum class (model_device.py, line 99) that the endpoint leaves to
\* the data
datum_error(posted) ==
    IF posted.data_type \notin DOMAIN MODEL_TYPE_NAMES
    THEN "Invalid data type"
    ELSE IF fromisoformat(posted.collection_time).raised # "none"
    THEN "ValueError"
    ELSE IF ~ /\ MODEL_TYPE_NAMES[posted.data_type] \subseteq DOMAIN posted.data
              /\ DOMAIN posted.data \subseteq
                     MODEL_TYPE_NAMES[posted.data_type] \cup {"datum_id"}
    THEN "TypeError"
    ELSE "none"

\* lines 72-82: the datum built from a data point, assigned_user absent
DeviceDatum(posted) ==
    [table           |-> posted.data_type,
     datum_id        |-> IF "datum_id" \in DOMAIN posted.data
                         THEN posted.data.datum_id ELSE None,
     device_id       |-> posted.device_id,
     assigned_user   |-> -1,
     collection_time |-> fromisoformat(posted.collection_time).value,
     values          |-> [f \in DOMAIN posted.data \ {"datum_id"} |->
                             posted.data[f]]]

\* lines 59-86: the loop over the body, collecting errors and data to store
RECURSIVE post_loop(_, _)
post_loop(data, i) ==
    IF i > Len(data) THEN [errors |-> <<>>, to_store |-> <<>>]
    ELSE LET rest == post_loop(data, i + 1)
             err  == datum_error(data[i])
         IN  IF err = "none"
             THEN [errors   |-> rest.errors,
                   to_store |-> <<DeviceDatum(data[i])>> \o rest.to_store]
             ELSE [errors   |-> <<[point |-> i - 1, error |-> err]>>
                                \o rest.errors,
                   to_store |-> rest.to_store]

\* the rows of one table (each datum class has a table of its own)
TableRows(rows, table) == SelectSeq(rows, LAMBDA r : r.table = table)

\* DataStorage.create, lines 499-504, is Model.save(): a datum without
\* datum_id is inserted and takes the next id of its table; a datum with a
\* datum_id is an UPDATE of the row of that id, which changes no row when
\* the table has none; every column is NOT NULL, and a None written to a
\* row is rejected by the table
create(rows, datum) ==
    LET null   == \E f \in DOMAIN datum.values : datum.values[f] = None
        target == {i \in DOMAIN rows :
                      /\ rows[i].table = datum.table
                      /\ Some(rows[i].datum_id) = datum.datum_id}
    IN  IF datum.datum_id = None
        THEN IF null
             THEN [rows |-> rows, raised |-> "IntegrityError"]
             ELSE [rows |-> Append(rows,
                      [datum EXCEPT !.datum_id =
                          Len(TableRows(rows, datum.table)) + 1]),
                   raised |-> "none"]
        ELSE IF target # {} /\ null
             THEN [rows |-> rows, raised |-> "IntegrityError"]
             ELSE [rows |-> [i \in DOMAIN rows |->
                               IF i \in target
                               THEN [datum EXCEPT !.datum_id = rows[i].datum_id]
                               ELSE rows[i]],
                   raised |-> "none"]

\* Endpoints.post, lines 46-91: the checks of the body; a body with an error
\* is answered and store_data is not called, otherwise store_data is called
\* with the data built
DataPost(p) ==
    /\ ingest[p].status # "storing"
    /\ response = NoResponse
    /\ Len(data_rows) < MaxMsgs
    /\ \E req \in DataRequests :
        LET loop   == post_loop(req.data, 1)
            answer(status, errors) ==
                [op |-> "data_post", request |-> req, status |-> status,
                 errors |-> errors]
        IN  IF req.content_type # "application/json"
            THEN /\ response' = answer("422", <<>>)
                 /\ UNCHANGED ingest
            ELSE IF req.shape # "list"
            THEN /\ response' = answer("error", <<req.shape>>)
                 /\ UNCHANGED ingest
            ELSE IF loop.errors # <<>>
            THEN /\ response' = answer("error", loop.errors)
                 /\ UNCHANGED ingest
            ELSE /\ ingest' = [ingest EXCEPT ![p] =
                        [data   |-> loop.to_store, next |-> 1,
                         status |-> IF loop.to_store = <<>> THEN "201"
                                    ELSE "storing"]]
                 /\ UNCHANGED response
    /\ UNCHANGED <<store, pc, user_ids, message, count, outcome>>

\* store_data, lines 526-536, and line 92: the data are created one by one,
\* each row committed by its own save(); a datum the table rejects ends the
\* request with the error, and the last datum stored ends it with 201
StoreData(p) ==
    /\ ingest[p].status = "storing"
    /\ response = NoResponse
    /\ LET r == create(data_rows, ingest[p].data[ingest[p].next])
       IN  /\ data_rows' = r.rows
           /\ ingest' = [ingest EXCEPT ![p] =
                  IF r.raised # "none" THEN [@ EXCEPT !.status = r.raised]
                  ELSE IF @.next = Len(@.data)
                  THEN [@ EXCEPT !.next = @ + 1, !.status = "201"]
                  ELSE [@ EXCEPT !.next = @ + 1]]
    /\ UNCHANGED <<database, chats_index, unique_index, pc, user_ids,
                   message, count, outcome, response>>

DataNext ==
    \/ \E p \in Procs :
          \/ DataPost(p)
          \/ StoreData(p)
    \/ Return

DataSpec == Init /\ [][DataNext]_vars

\* ------------------------------------------------------------------ a client that attaches
ConstructAttachment ==
    /\ response = NoResponse
    /\ \E type \in AttachmentTypes, url \in Urls :
        LET a == MessageAttachment(type, url)
        IN  response' = [op |-> "MessageAttachment", type |-> type,
                         url |-> url, raised |-> a.raised,
                         result |-> a.object]
    /\ UNCHANGED <<store, locals>>

AttachMessages == {m \in IndexMessages : m.from_user = 1}

\* a request takes the attachment that was constructed and logs a message
\* that carries it: the first store operation of its log_message call
LogAttachmentMessage(p) ==
    /\ pc[p] = "idle"
    /\ response.op = "MessageAttachment"
    /\ response.raised = "none"
    /\ Stored < MaxMsgs
    /\ \E ids \in ChatLists, m \in AttachMessages :
        LET m2 == [m EXCEPT !.attachments = response.result]
        IN  /\ user_ids' = [user_ids EXCEPT ![p] = with_sender(ids, m2)]
            /\ message' = [message EXCEPT ![p] = m2]
            /\ database' = insert_one(database,
                                      _get_chat_id(with_sender(ids, m2)),
                                      to_dict(m2))
    /\ pc' = [pc EXCEPT ![p] = "count_documents"]
    /\ count' = [count EXCEPT ![p] = 0]
    /\ outcome' = [outcome EXCEPT ![p] = "running"]
    /\ response' = NoResponse
    /\ UNCHANGED <<chats_index, unique_index, data_rows, ingest>>

AttachNext ==
    \/ ConstructAttachment
    \/ \E p \in Procs :
          \/ LogAttachmentMessage(p)
          \/ CountDocuments(p)
          \/ InsertIndexEntry(p)
          \/ CreateIndex(p)
    \/ Return

AttachSpec == Init /\ [][AttachNext]_vars

\* ------------------------------------------------------------------ concurrent writers and reads
\* the reads of the conversation {1, 2}: without bounds and with a bound
\* that leaves the latest timestamp out, without limit and with a limit
ChatReadLists == {<<1, 2>>, <<2, 1>>}
ChatTimes     == {None, Some(MaxTime)}
ChatLimits    == {0, 1}
ChatQueries   == {<<1>>, <<1, 2>>}

\* two requests log while reads are served, between any two store operations
ChatNext ==
    \/ \E p \in Procs :
          \/ ChatLogMessageInsert(p)
          \/ CountDocuments(p)
          \/ InsertIndexEntry(p)
          \/ CreateIndex(p)
    \/ QueryTimeRangeFrom(ChatReadLists, ChatTimes)
    \/ QueryLatestMessagesFrom(ChatReadLists, ChatTimes, ChatLimits)
    \/ GetUserChatsFrom(ChatQueries)
    \/ Return

ChatSpec == Init /\ [][ChatNext]_vars


\* ------------------------------------------------------------------ properties
\* every user_ids list log_message can hand to _get_chat_id
KeyLists == SeqsUpTo(UserIds, MaxLen + 1) \ {<<>>}

\* the key of a participant set
KeyOfSet(S) == _get_chat_id(sorted(S))

\* the participant set of the log_message call request p made last: the
\* list of the call, which holds the sender once the call has extended it
Participants(p) == Range(user_ids[p]) \cup {message[p].from_user}

\* request p has made a log_message call and the call has ended
Ended(p) == pc[p] = "idle" /\ outcome[p] # "none"

Occurrences(s, x) == Cardinality({i \in DOMAIN s : s[i] = x})

Ascending(s) ==
    \A i, j \in DOMAIN s : i < j => s[i].timestamp <= s[j].timestamp

\* C1: the conversation key does not depend on the order of the ids nor on
\* repeated ids: the key stored with an index entry is the key of every list
\* that has the same set of elements as the entry's list.
C1_KeyOrderDuplicateIndependent ==
    \A i \in DOMAIN chats_index :
        \A l \in KeyLists :
            Range(l) = Range(chats_index[i].user_ids)
                => _get_chat_id(l) = chats_index[i].chat_id

\* an entry stored from an unsorted list with a repeated id carries the key
\* of the sorted, deduplicated list
C1_Witness ==
    \E i \in DOMAIN chats_index :
        /\ chats_index[i].user_ids = <<2, 2, 1>>
        /\ chats_index[i].chat_id = _get_chat_id(<<1, 2>>)

\* C2: participant sets that differ have different keys: no index entry of
\* another participant set carries the key of the participant set of a call.
C2_DistinctSetsDistinctKeys ==
    \A p \in Procs :
        outcome[p] # "none" =>
            \A i \in DOMAIN chats_index :
                Range(chats_index[i].user_ids) # Participants(p)
                    => chats_index[i].chat_id # KeyOfSet(Participants(p))

\* C3: log_message appends its message to the conversation keyed by
\* participant_ids united with the sender, to no other conversation, and an
\* index entry it creates is the entry of that key and holds the sender.
C3_SenderInclusion ==
    [][\A p \in Procs :
          /\ (pc[p] = "idle" /\ pc'[p] = "count_documents") =>
                database' = insert_one(database,
                                KeyOfSet(Range(user_ids'[p])
                                             \cup {message'[p].from_user}),
                                message'[p])
          /\ (pc[p] = "insert_one" /\ chats_index' # chats_index) =>
                /\ Len(chats_index') = Len(chats_index) + 1
                /\ SubSeq(chats_index', 1, Len(chats_index)) = chats_index
                /\ chats_index'[Len(chats_index')].chat_id
                       = KeyOfSet(Participants(p))
                /\ Range(chats_index'[Len(chats_index')].user_ids)
                       = Participants(p)
    ]_vars

\* a call whose list was as long as a list can be and lacked the sender: the
\* list has grown by the sender, the message is in the conversation of the
\* united set and in no conversation of the list without the sender, and
\* the index entry of the united set holds the sender
C3_Witness ==
    \E p \in Procs :
        /\ Ended(p)
        /\ Len(user_ids[p]) = MaxLen + 1
        /\ user_ids[p][MaxLen + 1] = message[p].from_user
        /\ KeyOfSet(Participants(p)) \in DOMAIN database
        /\ _get_chat_id(SubSeq(user_ids[p], 1, MaxLen)) \notin DOMAIN database
        /\ \E i \in DOMAIN chats_index :
            /\ chats_index[i].chat_id = KeyOfSet(Participants(p))
            /\ message[p].from_user \in Range(chats_index[i].user_ids)

\* the messages of a conversation that lie strictly between the bounds
InBounds(m, since, until) ==
    /\ since # None => m.timestamp > since[1]
    /\ until # None => m.timestamp < until[1]

\* C4: query_time_range returns exactly the messages of the conversation
\* with since < timestamp < until (an absent bound filters nothing), each
\* as often as it is stored, in ascending timestamp order.
C4_TimeRangeExclusiveAscending ==
    response.op = "query_time_range" =>
        LET docs == Collection(database, _get_chat_id(response.user_ids))
        IN  /\ Ascending(response.result)
            /\ \A m \in Range(docs) \cup Range(response.result) :
                 Occurrences(response.result, m) =
                    IF InBounds(m, response.since, response.until)
                    THEN Occurrences(docs, m) ELSE 0

\* both bounds given, a message on a bound left out, a message strictly
\* between them returned
C4_Witness ==
    /\ response.op = "query_time_range"
    /\ response.since # None
    /\ response.until # None
    /\ Len(response.result) = 1
    /\ \E d \in Range(Collection(database, _get_chat_id(response.user_ids))) :
         d.timestamp = response.since[1] \/ d.timestamp = response.until[1]

\* C5: with limit > 0, query_latest_messages returns min(limit, n) of the n
\* messages of the conversation older than until, none of them older than a
\* message it leaves out, in ascending timestamp order.
C5_LatestPage ==
    (response.op = "query_latest_messages" /\ response.limit > 0) =>
        LET docs == Collection(database, _get_chat_id(response.user_ids))
            old  == SelectSeq(docs,
                        LAMBDA d : InBounds(d, None, response.until))
            page == response.result
        IN  /\ Len(page) = Min(response.limit, Len(old))
            /\ Ascending(page)
            /\ \A m \in Range(page) :
                 Occurrences(page, m) <= Occurrences(old, m)
            /\ \A m \in Range(old) :
                 Occurrences(page, m) < Occurrences(old, m)
                    => m.timestamp <= page[1].timestamp

\* a page of two messages of different age, the older one first
C5_Witness ==
    /\ response.op = "query_latest_messages"
    /\ response.limit = 2
    /\ Len(response.result) = 2
    /\ response.result[1].timestamp < response.result[2].timestamp

\* C6: query_latest_messages called with limit <= 0 returns no messages
\* (it ends in an error): it never returns a page for a non-positive limit.
C6_NonPositiveLimitReturnsNothing ==
    (response.op = "query_latest_messages" /\ response.limit <= 0) =>
        response.result = <<>>


\* index entries whose stored participant set is S
EntriesOfSet(S) == {i \in DOMAIN chats_index : Range(chats_index[i].user_ids) = S}

\* C7: after a log_message call that returned, the calls being made one at
\* a time, the index holds exactly one entry for the call's participant
\* set, and no two entries have the same conversation key.
C7_IndexUniqueSequential ==
    \A p \in Procs :
        (pc[p] = "idle" /\ outcome[p] = "returned") =>
            /\ Cardinality(EntriesOfSet(Participants(p))) = 1
            /\ \A i, j \in DOMAIN chats_index :
                 i # j => chats_index[i].chat_id # chats_index[j].chat_id

Quiescent == \A p \in Procs : pc[p] = "idle"

\* C8: once every log_message call has ended, whatever their interleaving,
\* no conversation key has more than one index entry.
C8_IndexUniqueConcurrent ==
    Quiescent =>
        \A i, j \in DOMAIN chats_index :
            i # j => chats_index[i].chat_id # chats_index[j].chat_id

\* C9: a call whose index insert the store rejected, the entry of its
\* participant set having been inserted by another writer, does not end in
\* an error.
C9_RejectedInsertIsSuccess ==
    \A p \in Procs :
        (/\ pc[p] = "idle"
         /\ count[p] = 0
         /\ EntriesOfSet(Range(user_ids[p])) # {})
            => outcome[p] # "DuplicateKeyError"

\* the stored lists of the entries whose participant set includes that of q
SupersetEntries(q) ==
    LET chats == SelectSeq(chats_index,
                    LAMBDA e : \A u \in Range(q) : u \in Range(e.user_ids))
    IN  [i \in 1..Len(chats) |-> chats[i].user_ids]

\* C10 as claimed: get_user_chats(Q) returns exactly the entries whose
\* participant set is a superset of Q, for every Q.
C10_SupersetEntriesAnyQuery ==
    response.op = "get_user_chats" =>
        response.result = SupersetEntries(response.user_ids)

\* C10 as amended: for a non-empty Q, get_user_chats(Q) returns exactly the
\* entries whose participant set is a superset of Q, each as its stored list
\* (here in the order the collection holds them); for an empty Q it returns
\* no entry.
C10_SupersetEntriesNonEmptyQuery ==
    response.op = "get_user_chats" =>
        response.result = IF response.user_ids = <<>> THEN <<>>
                          ELSE SupersetEntries(response.user_ids)

\* two entries indexed, a query of two ids: the one entry holding both is
\* returned, the other one is not
C10_Witness ==
    /\ response.op = "get_user_chats"
    /\ Len(chats_index) = 2
    /\ Cardinality(Range(response.user_ids)) = 2
    /\ Len(response.result) = 1
    /\ \E i \in DOMAIN chats_index :
         Range(response.user_ids) \cap Range(chats_index[i].user_ids) = {}

\* C11: a log_message call for a participant set whose key no entry of
\* another set carries succeeds, and the index then holds exactly one entry
\* for that set, whatever other sets are indexed.
C11_FirstMessageCreatesEntry ==
    \A p \in Procs :
        (/\ Ended(p)
         /\ \A i \in DOMAIN chats_index :
              chats_index[i].chat_id = KeyOfSet(Participants(p))
                  => Range(chats_index[i].user_ids) = Participants(p))
            => /\ outcome[p] = "returned"
               /\ Cardinality(EntriesOfSet(Participants(p))) = 1

\* C12: a query of a conversation whose collection is missing or empty
\* returns the empty sequence and raises nothing, whatever its bounds.
C12_EmptyConversationEmptyResult ==
    (/\ response.op \in {"query_time_range", "query_latest_messages"}
     /\ response.user_ids # <<>>
     /\ \A k \in DOMAIN database :
          k = _get_chat_id(response.user_ids) => database[k] = <<>>)
        => /\ response.result = <<>>
           /\ response.raised = "none"

\* a query of a conversation that has no collection, made while another
\* conversation holds a message
C12_Witness ==
    /\ response.op \in {"query_time_range", "query_latest_messages"}
    /\ _get_chat_id(response.user_ids) \notin DOMAIN database
    /\ database # <<>>
    /\ response.result = <<>>

\* C14: no step deletes or changes an index entry: every entry keeps its
\* place, its key and its stored list of participants.
C14_IndexEntriesFrozen ==
    [][\A i \in DOMAIN chats_index :
          /\ i \in DOMAIN chats_index'
          /\ chats_index'[i] = chats_index[i]
    ]_vars

\* a call that returned found the entry of its key stored under another
\* list of the same participants
C14_Witness ==
    \E p \in Procs :
        /\ pc[p] = "idle"
        /\ outcome[p] = "returned"
        /\ \E i \in DOMAIN chats_index :
             /\ chats_index[i].chat_id = KeyOfSet(Participants(p))
             /\ Range(chats_index[i].user_ids) = Participants(p)
             /\ chats_index[i].user_ids # user_ids[p]

\* C17: every log_message call appends one more record of its message to
\* the conversation, equal records already there or not, and the index
\* holds at most one entry of the conversation's key.
C17_NoDeduplication ==
    [][\A p \in Procs :
          (pc[p] = "idle" /\ pc'[p] = "count_documents") =>
              LET k == KeyOfSet(Participants(p)')
                  d == to_dict(message'[p])
              IN  /\ Occurrences(Collection(database', k), d)
                       = Occurrences(Collection(database, k), d) + 1
                  /\ count_documents(chats_index', k) <= 1
    ]_vars

\* the same message logged twice for the same participants: two equal
\* records, one index entry
C17_Witness ==
    \E p \in Procs :
        /\ Ended(p)
        /\ LET k == KeyOfSet(Participants(p))
           IN  /\ Occurrences(Collection(database, k),
                              to_dict(message[p])) = 2
               /\ count_documents(chats_index, k) = 1

\* C13: no step removes or edits a persisted message: every conversation
\* keeps its collection, and every message keeps its place and its sender,
\* text, timestamp and attachments.
C13_AppendOnlyLog ==
    [][\A k \in DOMAIN database :
          /\ k \in DOMAIN database'
          /\ Len(database'[k]) >= Len(database[k])
          /\ \A i \in DOMAIN database[k] : database'[k][i] = database[k][i]
    ]_vars

\* a query has read a store in which a conversation holds two messages
C13_Witness ==
    /\ response.op \in {"query_time_range", "query_latest_messages",
                        "get_user_chats"}
    /\ \E k \in DOMAIN database : Len(database[k]) = 2
    /\ Len(chats_index) >= 1

\* the lists that name each participant set
ListsBySet == [S \in SUBSET UserIds |-> {l \in KeyLists : Range(l) = S}]

\* the lists that name the participant set S
ListsOfSet(S) == ListsBySet[S]

\* the key _get_chat_id gives each list
KeyOfList == [l \in KeyLists |-> _get_chat_id(l)]

\* the result holds the message of every document, as many times as the
\* collection holds the document, and nothing else
SameMessages(result, docs) ==
    /\ Len(result) = Len(docs)
    /\ \A i \in DOMAIN docs :
          Occurrences(result, from_record(docs[i])) = Occurrences(docs, docs[i])

\* C15: a message logged by a member of a group, under any list naming
\* the group with or without the sender, is appended to the one collection
\* that every list of the group's participants reads, and a query without
\* bounds returns every message of the collection its list reads.
C15_SamePartitionRouting ==
    [][/\ \A p \in Procs :
            (pc[p] = "idle" /\ pc'[p] = "count_documents") =>
                \A l \in ListsOfSet(Range(user_ids'[p])) :
                    Collection(database', KeyOfList[l])
                        = Append(Collection(database, KeyOfList[l]),
                                 to_dict(message'[p]))
       /\ (/\ response'.op = "query_time_range"
           /\ response'.since = None
           /\ response'.until = None) =>
              SameMessages(response'.result,
                           Collection(database',
                                      _get_chat_id(response'.user_ids)))
    ]_vars

\* user 1 named <<2>>, user 2 named <<1, 2>>, and a query naming <<2, 1>>
\* returned the message of each
C15_Witness ==
    /\ response.op = "query_time_range"
    /\ response.user_ids = <<2, 1>>
    /\ \E p, q \in Procs :
         /\ message[p].from_user = 1 /\ user_ids[p] = <<2, 1>>
         /\ message[q].from_user = 2 /\ user_ids[q] = <<1, 2>>
         /\ message[p] \in Range(response.result)
         /\ message[q] \in Range(response.result)

\* the database with the documents of every collection in the opposite
\* order of insertion
ReverseInserted(db) == [k \in DOMAIN db |-> Reverse(db[k])]

\* C19: whatever the interleaving of the writers, a query returns messages
\* in non-decreasing timestamp order, and what it can return is what it
\* could return had the messages been inserted in the opposite order.
C19_OrderByTimestampOnly ==
    /\ response.op \in {"query_time_range", "query_latest_messages"}
          => Ascending(response.result)
    /\ response.op = "query_time_range" =>
          response.result \in query_time_range(ReverseInserted(database),
              response.user_ids, response.since, response.until)
    /\ response.op = "query_latest_messages" =>
          response.result \in query_latest_messages(ReverseInserted(database),
              response.user_ids, response.until, response.limit)

\* two writers inserted into one conversation, the later timestamp first,
\* and a query returned both messages, the earlier timestamp first
C19_Witness ==
    /\ response.op \in {"query_time_range", "query_latest_messages"}
    /\ \A p \in Procs : outcome[p] # "none"
    /\ Len(response.result) = 2
    /\ response.result[1].timestamp < response.result[2].timestamp
    /\ LET docs == Collection(database, _get_chat_id(response.user_ids))
       IN  Len(docs) = 2 /\ docs[1].timestamp > docs[2].timestamp

\* C16: a log_message call that counted more than one index entry of its
\* key returns without an error.
C16_DuplicateEntriesOnlyWarn ==
    \A p \in Procs :
        (pc[p] = "idle" /\ count[p] > 1) => outcome[p] = "returned"

\* C18: when the store cannot be reached after a call appended its message,
\* the call ends with the error at that step, with no further store
\* operation, and the message, the index and the unique index stay as the
\* call left them: the message is still in its conversation.
C18_NoPartialWriteRecovery ==
    [][\A p \in Procs :
          (outcome[p] = "running" /\ outcome'[p] = "StorageUnavailable") =>
              /\ pc'[p] = "idle"
              /\ database' = database
              /\ chats_index' = chats_index
              /\ unique_index' = unique_index
              /\ \E i \in DOMAIN Collection(database',
                                            _get_chat_id(user_ids[p])) :
                   Collection(database', _get_chat_id(user_ids[p]))[i]
                       = to_dict(message[p])
    ]_vars

\* a call ended with the store's error before it inserted the entry of its
\* conversation: the message is stored, the index has no entry of its key
C18_Witness ==
    \E p \in Procs :
        /\ outcome[p] = "StorageUnavailable"
        /\ pc[p] = "idle"
        /\ count_documents(chats_index, _get_chat_id(user_ids[p])) = 0
        /\ \E i \in DOMAIN Collection(database, _get_chat_id(user_ids[p])) :
             Collection(database, _get_chat_id(user_ids[p]))[i]
                 = to_dict(message[p])

\* C20: constructing an attachment succeeds exactly when its type is one of
\* video, audio, image, file and its url is not empty, and then yields the
\* object of that type and url; otherwise it raises a ValueError and yields
\* no object, so no attachment of another type or with an empty url exists.
C20_AttachmentValidation ==
    /\ response.op = "MessageAttachment" =>
         /\ response.raised = "none"
               <=> (/\ response.type \in {"video", "audio", "image", "file"}
                    /\ response.url # "")
         /\ response.raised = "none" =>
               response.result
                   = <<[type |-> response.type, url |-> response.url]>>
         /\ response.raised # "none" =>
               response.raised = "ValueError" /\ response.result = <<>>
    /\ \A k \in DOMAIN database :
         \A i \in DOMAIN database[k] :
             \A a \in Range(database[k][i].attachments) :
                 a.type \in {"video", "audio", "image", "file"} /\ a.url # ""

\* a supported type with an empty url was refused, after a message with a
\* valid attachment had been stored
C20_Witness ==
    /\ response.op = "MessageAttachment"
    /\ response.type \in {"video", "audio", "image", "file"}
    /\ response.url = ""
    /\ response.raised = "ValueError"
    /\ \E k \in DOMAIN database :
         \E i \in DOMAIN database[k] : database[k][i].attachments # <<>>

\* C21: a request with empty text and no attachments is answered with an
\* error and leaves the store as it was, and every persisted message has a
\* non-empty text or at least one attachment.
C21_TextOrAttachment ==
    [][/\ (/\ response'.op = "post"
           /\ response'.request.text = ""
           /\ response'.request.attachments = <<>>) =>
              /\ response'.status = "error"
              /\ UNCHANGED store
       /\ \A k \in DOMAIN database' :
            \A i \in DOMAIN database'[k] :
                database'[k][i].text # "" \/ database'[k][i].attachments # <<>>
    ]_vars

\* a request that lacks nothing but content was refused, in a store that
\* holds a message without text
C21_Witness ==
    /\ response.op = "post"
    /\ response.errors = <<"Either text or an attachment is required.">>
    /\ \E k \in DOMAIN database :
         \E i \in DOMAIN database[k] : database[k][i].text = ""

\* C29: a request whose recipients together with its sender are one single
\* user is not accepted: every call of log_message the endpoint makes is for
\* at least two participants.
C29_NoSelfConversation ==
    \A p \in Procs :
        outcome[p] # "none" => Cardinality(Participants(p)) >= 2

\* C22: in every state of every interleaving, the conversation of the key
\* of an index entry holds a message, and a call that is at an operation on
\* the index has its message in its conversation.
C22_MessageBeforeIndex ==
    /\ \A i \in DOMAIN chats_index :
         Collection(database, chats_index[i].chat_id) # <<>>
    /\ \A p \in Procs :
         pc[p] \in {"count_documents", "insert_one", "create_index"} =>
             \E i \in DOMAIN Collection(database, _get_chat_id(user_ids[p])) :
                 Collection(database, _get_chat_id(user_ids[p]))[i]
                     = to_dict(message[p])

\* one conversation is indexed while a call of another conversation has
\* stored its message and not yet inserted its entry
C22_Witness ==
    /\ chats_index # <<>>
    /\ \E p \in Procs :
         /\ pc[p] = "insert_one"
         /\ count_documents(chats_index, _get_chat_id(user_ids[p])) = 0
         /\ Collection(database, _get_chat_id(user_ids[p])) # <<>>

ReadOps == {"query_time_range", "query_latest_messages", "get_user_chats"}

\* what the read of response r can return in the store (db, index)
PossibleResults(r, db, index) ==
    IF r.op = "query_time_range"
    THEN query_time_range(db, r.user_ids, r.since, r.until)
    ELSE IF r.op = "query_latest_messages"
    THEN query_latest_messages(db, r.user_ids, r.until, r.limit)
    ELSE {get_user_chats(index, r.user_ids)}

\* C23 as claimed: a read leaves the store as it was, and the result it
\* returned is the one result the same read can return in that store.
C23_ReadsRepeatable ==
    [][response'.op \in ReadOps =>
          /\ UNCHANGED store
          /\ PossibleResults(response', database', chats_index')
                 = {response'.result}
    ]_vars

\* C23 as amended: a read leaves the store as it was, and every result the
\* same read can return in that store has the same length and the same
\* timestamp at every position; the results of query_time_range hold the
\* same messages the same number of times and differ at most in the order
\* of messages of equal timestamp, and get_user_chats has one result.
C23_ReadsLeaveStoreUnchanged ==
    [][response'.op \in ReadOps =>
          /\ UNCHANGED store
          /\ \A r \in PossibleResults(response', database', chats_index') :
               /\ Len(r) = Len(response'.result)
               /\ response'.op # "get_user_chats" =>
                    \A i \in DOMAIN r :
                        r[i].timestamp = response'.result[i].timestamp
               /\ response'.op = "query_time_range" =>
                    \A i \in DOMAIN r :
                        Occurrences(r, r[i])
                            = Occurrences(response'.result, r[i])
               /\ response'.op = "get_user_chats" => r = response'.result
    ]_vars

\* a query returned two messages of one timestamp and different senders,
\* which the same query can return in the other order
C23_Witness ==
    /\ response.op \in {"query_time_range", "query_latest_messages"}
    /\ Len(response.result) = 2
    /\ response.result[1].timestamp = response.result[2].timestamp
    /\ response.result[1] # response.result[2]

\* C24: a query under a list of participants returns only messages of
\* conversations of exactly these participants; the sender of a message is
\* a participant of its conversation, so every message returned was sent by
\* one of the users the query names.
C24_ConversationIsolation ==
    response.op \in {"query_time_range", "query_latest_messages"} =>
        \A i \in DOMAIN response.result :
            response.result[i].from_user \in Range(response.user_ids)

\* the timestamps of the documents are pairwise distinct
DistinctTimestamps(docs) ==
    \A i, j \in DOMAIN docs : i # j => docs[i].timestamp # docs[j].timestamp

\* C25: in a conversation of pairwise distinct timestamps, with limit > 0,
\* query_latest_messages(ids, until, limit) is the last min(limit, n)
\* elements of query_time_range(ids, None, until), n being its length.
C25_LatestIsSuffixOfRange ==
    (/\ response.op = "query_latest_messages"
     /\ response.limit > 0
     /\ DistinctTimestamps(Collection(database,
                                      _get_chat_id(response.user_ids)))) =>
        \A r \in query_time_range(database, response.user_ids, None,
                                  response.until) :
            response.result
                = SubSeq(r, Len(r) - Min(response.limit, Len(r)) + 1, Len(r))

\* of two messages of different timestamps, both older than until, a page
\* of limit 1 holds the later one
C25_Witness ==
    /\ response.op = "query_latest_messages"
    /\ response.limit = 1
    /\ response.until # None
    /\ LET docs == Collection(database, _get_chat_id(response.user_ids))
       IN  /\ Len(docs) = 2
           /\ docs[1].timestamp > docs[2].timestamp
           /\ docs[1].timestamp < response.until[1]
           /\ response.result = <<from_record(docs[1])>>

\* C26: a backward walk over the pages of a conversation, ended by an empty
\* page, during which no message was added to the conversation, has visited
\* every message of the conversation exactly once, whatever the timestamps
\* of the messages.
C26_PaginationComplete ==
    (/\ response.op = "paginate"
     /\ response.done
     /\ response.held = Len(Collection(database,
                                       _get_chat_id(response.user_ids)))) =>
        LET docs == Collection(database, _get_chat_id(response.user_ids))
        IN  /\ Len(response.visited) = Len(docs)
            /\ \A i \in DOMAIN docs :
                 Occurrences(response.visited, from_record(docs[i]))
                     = Occurrences(docs, docs[i])

\* C27: with no call in progress, the key of every index entry is the key
\* derived from the entry's stored participants, and the sender of every
\* message of a conversation is one of the participants of the index entry
\* of that conversation's key.
C27_IndexConsistent ==
    Quiescent =>
        \A i \in DOMAIN chats_index :
            /\ chats_index[i].chat_id = _get_chat_id(chats_index[i].user_ids)
            /\ \A n \in DOMAIN Collection(database, chats_index[i].chat_id) :
                 Collection(database, chats_index[i].chat_id)[n].from_user
                     \in Range(chats_index[i].user_ids)

\* every conversation that holds a message has an index entry of its key:
\* no call has ended in an error that kept its entry out of the index
AllIndexed ==
    \A k \in DOMAIN database :
        database[k] # <<>> => count_documents(chats_index, k) >= 1

\* C28: with no call in progress and every conversation indexed,
\* get_user_chats of one user lists, for every conversation that holds a
\* message this user sent, an entry of that conversation's key.
C28_IndexCompleteAtQuiescence ==
    (/\ Quiescent
     /\ response.op = "get_user_chats"
     /\ Len(response.user_ids) = 1
     /\ AllIndexed) =>
        \A k \in DOMAIN database :
            \A n \in DOMAIN database[k] :
                database[k][n].from_user = response.user_ids[1] =>
                    \E i \in DOMAIN response.result :
                        _get_chat_id(response.result[i]) = k

\* a is b with elements left out
RECURSIVE IsSubSeq(_, _)
IsSubSeq(a, b) ==
    IF a = <<>> THEN TRUE
    ELSE IF b = <<>> THEN FALSE
    ELSE IF Head(a) = Head(b) THEN IsSubSeq(Tail(a), Tail(b))
    ELSE IsSubSeq(a, Tail(b))

\* what a row or a datum holds beside its datum_id
Reading(d) == [table |-> d.table, device_id |-> d.device_id,
               assigned_user |-> d.assigned_user,
               collection_time |-> d.collection_time, values |-> d.values]

Readings(ds) == [i \in DOMAIN ds |-> Reading(ds[i])]

\* C30: the data ingestion POST is all-or-nothing: a list holding a data
\* point of unknown data_type, or one that fails construction, is answered
\* with an error and none of its points is stored; a list of which every
\* point is valid ends with every point stored, in submission order
C30_IngestionAllOrNothing ==
    [][/\ (response.op = "none" /\ response'.op = "data_post") =>
             /\ data_rows' = data_rows
             /\ UNCHANGED ingest
       /\ \A p \in Procs :
            (ingest[p].status = "storing" /\ ingest'[p].status # "storing") =>
                /\ ingest'[p].status = "201"
                /\ IsSubSeq(Readings(ingest'[p].data), Readings(data_rows'))
      ]_vars

====
